---- MODULE Spec2Model ----
(***************************************************************************)
(* ST7789 parallel display driver (st7789.cpp) and its MicroPython binding *)
(* (st7789_bindings.cpp): one software thread of control, two DMA channels *)
(* and two PIO shift state machines running beside it.                     *)
(***************************************************************************)
EXTENDS Integers, Sequences, FiniteSets, TLC

\* ------------------------------------------------------------------ bounds
\* Logical framebuffer size. The panel build uses 160 x 120; the model keeps
\* the loop structure and scales the two dimensions down.
width == 2
height == 2
\* Depth of a shift state machine's TX FIFO (hardware: 4 entries).
FifoDepth == 2
\* Objects the interpreter makes in a run of the binding specification.
MaxHandles == 2
\* System clock frequencies explored by the clock-divider specification run
\* up to MaxClockSteps quarter-steps of max_pio_clk (and the 32-bit edge).
MaxClockSteps == 40

\* --------------------------------------------------------------- constants
max_pio_clk == 50000000

\* enum reg
SWRESET == 1
TEON == 53
MADCTL == 54
COLMOD == 58
RAMCTRL == 176
GCTRL == 183
VCOMS == 187
LCMCTRL == 192
VDVVRHEN == 194
VRHS == 195
VDVS == 196
FRCTRL2 == 198
PWCTRL1 == 208
PORCTRL == 178
GMCTRP1 == 224
GMCTRN1 == 225
SLPIN == 16
SLPOUT == 17
DISPON == 41
RAMWR == 44
INVON == 33
CASET == 42
RASET == 43

\* enum MADCTL bits
ROW_ORDER == 128
SWAP_XY == 32
SCAN_ORDER == 16

\* ------------------------------------------------------------ bit helpers
RECURSIVE BitAnd(_, _)
BitAnd(a, b) ==
  IF a = 0 \/ b = 0 THEN 0
  ELSE (IF a % 2 = 1 /\ b % 2 = 1 THEN 1 ELSE 0) + 2 * BitAnd(a \div 2, b \div 2)

RECURSIVE BitOr(_, _)
BitOr(a, b) ==
  IF a = 0 THEN b
  ELSE IF b = 0 THEN a
  ELSE (IF a % 2 = 1 \/ b % 2 = 1 THEN 1 ELSE 0) + 2 * BitOr(a \div 2, b \div 2)

Pow2(n) == 2 ^ n

U16 == Pow2(16)

Shl(a, n) == a * Pow2(n)
Shr(a, n) == a \div Pow2(n)

\* __builtin_bswap16
bswap16(v) == (v % 256) * 256 + (v \div 256)
\* a uint16_t seen through a char pointer on the little-endian target
BytesOf16(v) == <<v % 256, v \div 256>>

\* ------------------------------------------------------- pixel conversion
\* update(): ((src[0] & 0b11111000) << 8) | ((src[1] & 0b11111100) << 3) | (src[2] >> 3),
\* stored into a uint16_t.
\* (variant: green masked like red and blue)
ConvertPixel_wrongmask(s0, s1, s2) ==
  BitOr(BitOr(Shl(BitAnd(s0, 248), 8), Shl(BitAnd(s1, 248), 3)), Shr(s2, 3)) % U16

ConvertPixel(s0, s1, s2) ==
  BitOr(BitOr(Shl(BitAnd(s0, 248), 8), Shl(BitAnd(s1, 252), 3)), Shr(s2, 3)) % U16

\* --------------------------------------------------------- 32-bit values
\* A uint32_t is kept as its two 16-bit halves, so that sums wrap at 2^32 as
\* they do on the target.
W32(v) == [h |-> v \div U16, l |-> v % U16]

Add32(a, b) ==
  [h |-> (a.h + b.h + ((a.l + b.l) \div U16)) % U16, l |-> (a.l + b.l) % U16]

Bit32(a, i) == IF i >= 16 THEN (a.h \div Pow2(i - 16)) % 2 ELSE (a.l \div Pow2(i)) % 2

\* unsigned division by a divisor below 2^30: the quotient digit by digit
RECURSIVE DivBits(_, _, _, _, _)
DivBits(a, m, i, rem, q) ==
  IF i < 0 THEN q
  ELSE LET r == 2 * rem + Bit32(a, i)
       IN IF r >= m THEN DivBits(a, m, i - 1, r - m, 2 * q + 1)
                    ELSE DivBits(a, m, i - 1, r, 2 * q)

Div32(a, m) == DivBits(a, m, 31, 0, 0)

LessEq32(a, b) == a.h < b.h \/ (a.h = b.h /\ a.l <= b.l)

\* ----------------------------------------------------------- clock divider
\* update(): const uint32_t clk_div = (sys_clk_hz + max_pio_clk - 1) / max_pio_clk;
\* (variant: plain truncating division)
ClkDiv_floor(hz) == Div32(hz, max_pio_clk)

ClkDiv(hz) == Div32(Add32(hz, W32(max_pio_clk - 1)), max_pio_clk)

\* ---------------------------------------------------------------- backlight
\* st7789_set_backlight: (uint8_t)(mp_obj_get_float(value_in) * 255), the float
\* given in thousandths (v / 1000); the cast truncates toward zero.
ScaleBrightness(v) == ((v * 255) \div 1000) % 256

\* set_backlight: (uint16_t)(pow((float)(brightness) / 255.0f, 2.8) * 65535.0f + 0.5f),
\* tabulated in single precision for the brightness levels the model uses.
GammaTable == [b \in {0, 1, 3, 4, 127, 255} |->
  CASE b = 0 -> 0
    [] b = 1 -> 0
    [] b = 3 -> 0
    [] b = 4 -> 1
    [] b = 127 -> 9307
    [] b = 255 -> 65535]

GammaLevel(b) == GammaTable[b]

\* ------------------------------------------------------------------ sizes
NPix == width * height
\* st7789_get_framebuffer: bufinfo->len = 160 * 120 * 4
FbLen == width * height * 4
\* uint16_t backbuffer[160 * 240]
BackbufferLen == width * (height * 2)

\* ----------------------------------------------------------------- inputs
\* Source pixels (R, G, B, pad) the caller may put in the framebuffer.
Pixels == << <<255, 0, 0, 0>>, <<8, 4, 8, 0>>, <<8, 4, 8, 77>>,
             <<7, 3, 7, 255>>, <<165, 90, 195, 1>> >>

\* Frame (a, s): pixel i holds Pixels[(a + i * s) mod N], as bytes.
FrameBytes(a, s) ==
  [j \in 1..FbLen |->
     Pixels[((a + ((j - 1) \div 4) * s) % Len(Pixels)) + 1][((j - 1) % 4) + 1]]

ZeroFrame == [j \in 1..FbLen |-> 0]
\* frames the caller writes in the driver specification
FrameSet == {ZeroFrame, FrameBytes(1, 1)}
\* frames explored by the conversion specification
ConvFrames == {FrameBytes(a, s) : a \in 0..(Len(Pixels) - 1), s \in 0..(Len(Pixels) - 1)}
\* what the back-buffer may hold before a conversion
BackFills == {[i \in 1..BackbufferLen |-> 0], [i \in 1..BackbufferLen |-> 43690 + i]}

\* brightness requests of the binding, in thousandths of full scale
BacklightValues == {0, 2, 4, 1000}

\* system clocks of the driver specification and of the divider specification
\* 2^32 - max_pio_clk, the largest clock whose rounding sum does not wrap
ClockEdge == [h |-> (U16 - 1) - ((max_pio_clk - 1) \div U16),
              l |-> (U16 - 1) - ((max_pio_clk - 1) % U16)]
SysClocks == {W32(125000000), W32(250000000)}
ClockSet ==
  {W32(k * (max_pio_clk \div 4) + d) : k \in 1..MaxClockSteps, d \in {-1, 0, 1}}
    \cup {W32(1), ClockEdge, Add32(ClockEdge, W32(1)), [h |-> U16 - 1, l |-> U16 - 1]}

\* ---------------------------------------------------------- init sequence
Cmd(op, len, data) == [k |-> "cmd", op |-> op, null |-> FALSE, len |-> len, data |-> data]
Cmd0(op) == [k |-> "cmd", op |-> op, null |-> TRUE, len |-> 0, data |-> <<>>]
Delay(ms) == [k |-> "sleep", op |-> 0, null |-> TRUE, len |-> ms, data |-> <<>>]
Light(b) == [k |-> "backlight", op |-> 0, null |-> TRUE, len |-> b, data |-> <<>>]
Refresh == [k |-> "update", op |-> 0, null |-> TRUE, len |-> 0, data |-> <<>>]
\* further entries of the log: a bulk transfer started
Bulk == [k |-> "bulk", op |-> 0, null |-> TRUE, len |-> 0, data |-> <<>>]

madctl == BitOr(BitOr(ROW_ORDER, SWAP_XY), SCAN_ORDER)
caset == BytesOf16(bswap16(0)) \o BytesOf16(bswap16(319))
raset == BytesOf16(bswap16(0)) \o BytesOf16(bswap16(239))

\* update(); set_backlight(255);
\* (variant: the backlight raised before the first frame is sent)
InitFinish_lightfirst == <<Light(255), Refresh>>

InitFinish == <<Refresh, Light(255)>>

\* the statements of ST7789::init() after the GPIO and PWM set-up, in order
InitSeq == <<
  Light(0),
  Cmd0(SWRESET),
  Delay(150),
  Cmd0(TEON),
  Cmd(COLMOD, 1, <<5>>),
  Cmd(PORCTRL, 5, <<12, 12, 0, 51, 51>>),
  Cmd(LCMCTRL, 1, <<44>>),
  Cmd(VDVVRHEN, 1, <<1>>),
  Cmd(VRHS, 1, <<18>>),
  Cmd(VDVS, 1, <<32>>),
  Cmd(PWCTRL1, 2, <<164, 161>>),
  Cmd(FRCTRL2, 1, <<15>>),
  Cmd(RAMCTRL, 2, <<0, 192>>),
  Cmd(GCTRL, 1, <<53>>),
  Cmd(VCOMS, 1, <<31>>),
  Cmd(GMCTRP1, 14, <<208, 8, 17, 8, 12, 21, 57, 51, 80, 54, 19, 20, 41, 45>>),
  Cmd(GMCTRN1, 14, <<208, 8, 16, 8, 6, 6, 57, 68, 81, 11, 22, 20, 47, 49>>),
  Cmd0(INVON),
  Cmd0(SLPOUT),
  Cmd0(DISPON),
  Delay(100),
  Cmd(CASET, 4, caset),
  Cmd(RASET, 4, raset),
  Cmd(MADCTL, 1, <<madctl>>) >> \o InitFinish

\* ------------------------------------------------------------------ state
VARIABLES
  pc, stack,                 \* position of the thread of control, return labels
  display,                   \* binding: ST7789 *display
  display_on, display_sleep, \* ST7789 members
  init_i,                    \* next statement of init()
  value_in, brightness,      \* st7789_set_backlight / set_backlight arguments
  bl_entry_sleep,            \* display_sleep when set_backlight was entered
  cmd,                       \* command(): opcode, len, data
  wb_src, wb_len,            \* write_blocking_parallel(src, len)
  clk_sys, sys_clk_hz,       \* clock_get_hz(clk_sys) and update()'s copy of it
  src, dst, x, y,            \* update(): conversion loop
  framebuffer, backbuffer,
  writes, oob,               \* stores per back-buffer entry and accesses outside
                             \* either buffer during the current conversion
  lastFb, lastBack,          \* framebuffer and back-buffer of the previous conversion
  dc, cs, pwm_level,         \* GPIO output latches and backlight PWM level
  st_count, st_src, st_fifo, st_osr,          \* command channel: st_dma, parallel_sm
  pd_count, pd_trans, pd_idx, pd_fifo, pd_osr, \* bulk channel: pd_st_dma, parallel_pd_sm
  pd_clkdiv, pd_starts,      \* divider of parallel_pd_sm; bulk starts of this update()
  bus_last,                  \* latest byte parallel_sm put on the bus for the running
                             \* operation, with the framing lines then: <<byte, dc, cs>>
  log,                       \* commands, delays, PWM settings and bulk starts of the
                             \* running binding call, in program order
  handles,                   \* binding: the ST7789_obj_t handles alive
  instance,                  \* the ST7789 object display points to, named by the
                             \* handle whose construction made it (0: none)
  latest,                    \* the most recently constructed ST7789 object (0: none)
  bl_prev,                   \* the interpreter's previous call, if it was
                             \* set_backlight(0): "zero_awake" / "zero_asleep" by the
                             \* sleep state it found; "none" otherwise
  self_in,                   \* handle passed to the running binding call (0: none)
  this                       \* object the running driver call acts on (0: none)

sw_vars == <<display, display_on, display_sleep, init_i, value_in, brightness,
             bl_entry_sleep>>
arg_vars == <<cmd, wb_src, wb_len>>
clk_vars == <<clk_sys, sys_clk_hz, pd_clkdiv>>
conv_vars == <<src, dst, x, y, backbuffer, writes, oob, lastFb, lastBack>>
pin_vars == <<dc, cs, pwm_level>>
st_vars == <<st_count, st_src, st_fifo, st_osr>>
pd_vars == <<pd_count, pd_trans, pd_idx, pd_fifo, pd_osr, pd_starts>>

bind_vars == <<handles, instance, latest, bl_prev, self_in, this>>

vars == <<pc, stack, sw_vars, arg_vars, clk_vars, conv_vars, framebuffer, pin_vars,
          st_vars, pd_vars, bus_last, log, bind_vars>>

NoCmd == Cmd0(0)
NoByte == <<-1, 0, 0>>
NoWrites == [i \in 1..BackbufferLen |-> 0]

\* Everything but the buffers, the clock and the position, before construction.
Reset ==
  /\ stack = <<>>
  /\ display = "nullptr"
  /\ display_on = FALSE /\ display_sleep = FALSE
  /\ init_i = 1
  /\ value_in = -1 /\ brightness = 0 /\ bl_entry_sleep = FALSE
  /\ cmd = NoCmd /\ wb_src = <<>> /\ wb_len = 0
  /\ sys_clk_hz = W32(0) /\ pd_clkdiv = 1
  /\ src = 0 /\ dst = 0 /\ x = 0 /\ y = 0
  /\ writes = NoWrites /\ oob = FALSE
  /\ dc = 0 /\ cs = 0 /\ pwm_level = 0
  /\ st_count = 0 /\ st_src = <<>> /\ st_fifo = <<>> /\ st_osr = <<>>
  /\ pd_count = 0 /\ pd_trans = 0 /\ pd_idx = 0 /\ pd_fifo = <<>> /\ pd_osr = <<>>
  /\ pd_starts = 0
  /\ bus_last = NoByte
  /\ log = <<>>
  /\ handles = {} /\ instance = 0 /\ latest = 0 /\ self_in = 0 /\ this = 0
  /\ bl_prev = "none"

Init ==
  /\ Reset
  /\ pc = "idle"
  /\ clk_sys \in SysClocks
  /\ framebuffer = ZeroFrame
  /\ backbuffer = [i \in 1..BackbufferLen |-> 0]
  /\ lastFb = <<>>
  /\ lastBack = <<>>

\* ---------------------------------------------------------- control flow
Call(target, ret) == pc' = target /\ stack' = <<ret>> \o stack
Return == pc' = Head(stack) /\ stack' = Tail(stack)
Goto(l) == pc' = l /\ UNCHANGED stack
\* a call made by the interpreter is over; one made by init() goes on in init()
LeaveCall ==
  IF Head(stack) = "idle"
    THEN log' = <<>> /\ self_in' = 0 /\ this' = 0
    ELSE UNCHANGED <<log, self_in, this>>

\* ------------------------------------------------------------- hardware
\* A DMA channel is busy until it has handed over its last transfer.
dma_channel_is_busy(count) == count > 0
pio_sm_is_tx_fifo_empty(fifo) == fifo = <<>>

\* st_dma moves the next byte of its source into the FIFO of parallel_sm.
st_dma_transfer ==
  /\ dma_channel_is_busy(st_count) /\ Len(st_fifo) < FifoDepth
  /\ st_fifo' = Append(st_fifo, Head(st_src))
  /\ st_src' = Tail(st_src)
  /\ st_count' = st_count - 1
  /\ UNCHANGED <<pc, stack, sw_vars, arg_vars, clk_vars, conv_vars, framebuffer,
                 pin_vars, st_osr, pd_vars, bus_last, log, bind_vars>>

\* parallel_sm pulls a byte from its FIFO into the shifter ...
st_pio_pull ==
  /\ st_osr = <<>> /\ st_fifo # <<>>
  /\ st_osr' = <<Head(st_fifo)>>
  /\ st_fifo' = Tail(st_fifo)
  /\ UNCHANGED <<pc, stack, sw_vars, arg_vars, clk_vars, conv_vars, framebuffer,
                 pin_vars, st_count, st_src, pd_vars, bus_last, log, bind_vars>>

\* ... and clocks it onto the bus under the framing lines as they are then.
st_pio_shift ==
  /\ st_osr # <<>>
  /\ bus_last' = <<Head(st_osr), dc, cs>>
  /\ st_osr' = <<>>
  /\ UNCHANGED <<pc, stack, sw_vars, arg_vars, clk_vars, conv_vars, framebuffer,
                 pin_vars, st_count, st_src, st_fifo, pd_vars, log, bind_vars>>

\* pd_st_dma reads the next back-buffer entry into the FIFO of parallel_pd_sm.
\* dma_channel_set_read_addr(pd_st_dma, &backbuffer, true);
\* (variant: the caller's framebuffer)
BulkSource_framebuffer == framebuffer

BulkSource == backbuffer

pd_dma_transfer ==
  /\ dma_channel_is_busy(pd_count) /\ Len(pd_fifo) < FifoDepth
  /\ pd_fifo' = Append(pd_fifo,
                       IF pd_idx < BackbufferLen THEN BulkSource[pd_idx + 1] ELSE 0)
  /\ pd_idx' = pd_idx + 1
  /\ pd_count' = pd_count - 1
  /\ UNCHANGED <<pc, stack, sw_vars, arg_vars, clk_vars, conv_vars, framebuffer,
                 pin_vars, st_vars, pd_trans, pd_osr, pd_starts, bus_last, log, bind_vars>>

pd_pio_pull ==
  /\ pd_osr = <<>> /\ pd_fifo # <<>>
  /\ pd_osr' = <<Head(pd_fifo)>>
  /\ pd_fifo' = Tail(pd_fifo)
  /\ UNCHANGED <<pc, stack, sw_vars, arg_vars, clk_vars, conv_vars, framebuffer,
                 pin_vars, st_vars, pd_count, pd_trans, pd_idx, pd_starts, bus_last, log, bind_vars>>

pd_pio_shift ==
  /\ pd_osr # <<>>
  /\ pd_osr' = <<>>
  /\ UNCHANGED <<pc, stack, sw_vars, arg_vars, clk_vars, conv_vars, framebuffer,
                 pin_vars, st_vars, pd_count, pd_trans, pd_idx, pd_fifo, pd_starts,
                 bus_last, log, bind_vars>>

\* --------------------------------------------------- write_blocking_*
\* write_blocking_dma: wait for st_dma, then program and trigger it.
write_blocking_dma ==
  /\ pc = "write_blocking_parallel"
  /\ ~dma_channel_is_busy(st_count)
  /\ st_count' = wb_len
  /\ st_src' = wb_src
  /\ Goto("wbp_finish")
  /\ UNCHANGED <<sw_vars, arg_vars, clk_vars, conv_vars, framebuffer, pin_vars,
                 st_fifo, st_osr, pd_vars, bus_last, log, bind_vars>>

\* dma_channel_wait_for_finish_blocking(st_dma)
\* dma_channel_wait_for_finish_blocking(st_dma)
\* (variant: the wait left out)
wbp_finish_nowait ==
  /\ pc = "wbp_finish"
  /\ Goto("wbp_fifo")
  /\ UNCHANGED <<sw_vars, arg_vars, clk_vars, conv_vars, framebuffer, pin_vars,
                 st_vars, pd_vars, bus_last, log, bind_vars>>

wbp_finish ==
  /\ pc = "wbp_finish"
  /\ ~dma_channel_is_busy(st_count)
  /\ Goto("wbp_fifo")
  /\ UNCHANGED <<sw_vars, arg_vars, clk_vars, conv_vars, framebuffer, pin_vars,
                 st_vars, pd_vars, bus_last, log, bind_vars>>

\* while(!pio_sm_is_tx_fifo_empty(parallel_pio, parallel_sm));
wbp_fifo ==
  /\ pc = "wbp_fifo"
  /\ pio_sm_is_tx_fifo_empty(st_fifo)
  /\ Return
  /\ wb_src' = <<>> /\ wb_len' = 0
  /\ UNCHANGED <<sw_vars, cmd, clk_vars, conv_vars, framebuffer, pin_vars,
                 st_vars, pd_vars, bus_last, log, bind_vars>>

write_blocking_parallel == write_blocking_dma \/ wbp_finish \/ wbp_fifo

\* --------------------------------------------------------------- command
cmd_dc0 ==
  /\ pc = "command"
  /\ dc' = 0
  /\ Goto("cmd_cs0")
  /\ UNCHANGED <<sw_vars, arg_vars, clk_vars, conv_vars, framebuffer, cs, pwm_level,
                 st_vars, pd_vars, bus_last, log, bind_vars>>

cmd_cs0 ==
  /\ pc = "cmd_cs0"
  /\ cs' = 0
  /\ Goto("cmd_op")
  /\ UNCHANGED <<sw_vars, arg_vars, clk_vars, conv_vars, framebuffer, dc, pwm_level,
                 st_vars, pd_vars, bus_last, log, bind_vars>>

\* write_blocking_parallel(&command, 1)
cmd_op ==
  /\ pc = "cmd_op"
  /\ wb_src' = <<cmd.op>> /\ wb_len' = 1
  /\ log' = Append(log, cmd)
  /\ Call("write_blocking_parallel", "cmd_data")
  /\ UNCHANGED <<sw_vars, cmd, clk_vars, conv_vars, framebuffer, pin_vars,
                 st_vars, pd_vars, bus_last, bind_vars>>

\* if(data) { gpio_put(dc, 1); ...
\* if(data) { gpio_put(dc, 1); ...
\* (variant: the payload branch taken without the test)
cmd_data_untested ==
  /\ pc = "cmd_data"
  /\ dc' = 1 /\ Goto("cmd_payload")
  /\ UNCHANGED <<sw_vars, arg_vars, clk_vars, conv_vars, framebuffer, cs, pwm_level,
                 st_vars, pd_vars, bus_last, log, bind_vars>>

cmd_data ==
  /\ pc = "cmd_data"
  /\ IF ~cmd.null
       THEN dc' = 1 /\ Goto("cmd_payload")
       ELSE dc' = dc /\ Goto("cmd_cs1")
  /\ UNCHANGED <<sw_vars, arg_vars, clk_vars, conv_vars, framebuffer, cs, pwm_level,
                 st_vars, pd_vars, bus_last, log, bind_vars>>

\* ... write_blocking_parallel((const uint8_t*)data, len); }
cmd_payload ==
  /\ pc = "cmd_payload"
  /\ wb_src' = cmd.data /\ wb_len' = cmd.len
  /\ Call("write_blocking_parallel", "cmd_cs1")
  /\ UNCHANGED <<sw_vars, cmd, clk_vars, conv_vars, framebuffer, pin_vars,
                 st_vars, pd_vars, bus_last, log, bind_vars>>

\* gpio_put(cs, 1);  and return
\* (variant: chip-select left asserted)
cmd_cs1_asserted ==
  /\ pc = "cmd_cs1"
  /\ cs' = cs
  /\ Return
  /\ cmd' = NoCmd
  /\ bus_last' = NoByte
  /\ UNCHANGED <<sw_vars, wb_src, wb_len, clk_vars, conv_vars, framebuffer, dc,
                 pwm_level, st_vars, pd_vars, log, bind_vars>>

cmd_cs1 ==
  /\ pc = "cmd_cs1"
  /\ cs' = 1
  /\ Return
  /\ cmd' = NoCmd
  /\ bus_last' = NoByte
  /\ UNCHANGED <<sw_vars, wb_src, wb_len, clk_vars, conv_vars, framebuffer, dc,
                 pwm_level, st_vars, pd_vars, log, bind_vars>>

command == cmd_dc0 \/ cmd_cs0 \/ cmd_op \/ cmd_data \/ cmd_payload \/ cmd_cs1

\* --------------------------------------------------------- set_backlight
\* if(brightness == 0 && !display_sleep)
\* (variant: the brightness test left out)
SleepEntry_anylevel(b, asleep) == ~asleep

SleepEntry(b, asleep) == b = 0 /\ ~asleep

\* else if (display_sleep)
\* (variant: taken whatever the sleep state)
WakeExit_always(b, asleep) == TRUE

WakeExit(b, asleep) == asleep

\* pwm_set_gpio_level(bl, value)
bl_pwm ==
  /\ pc = "set_backlight"
  /\ pwm_level' = GammaLevel(brightness)
  /\ log' = Append(log, Light(brightness))
  /\ Goto("bl_branch")
  /\ UNCHANGED <<sw_vars, arg_vars, clk_vars, conv_vars, framebuffer, dc, cs,
                 st_vars, pd_vars, bus_last, bind_vars>>

bl_branch ==
  /\ pc = "bl_branch"
  /\ IF SleepEntry(brightness, display_sleep)
       THEN cmd' = Cmd0(SLPOUT) /\ Call("command", "bl_sleep5")
       ELSE IF WakeExit(brightness, display_sleep)
         THEN cmd' = Cmd0(SLPOUT) /\ Call("command", "bl_sleep120")
         ELSE cmd' = cmd /\ Goto("bl_done")
  /\ UNCHANGED <<sw_vars, wb_src, wb_len, clk_vars, conv_vars, framebuffer, pin_vars,
                 st_vars, pd_vars, bus_last, log, bind_vars>>

\* sleep_ms(5);
bl_sleep5 ==
  /\ pc = "bl_sleep5"
  /\ log' = Append(log, Delay(5))
  /\ Goto("bl_asleep")
  /\ UNCHANGED <<sw_vars, arg_vars, clk_vars, conv_vars, framebuffer, pin_vars,
                 st_vars, pd_vars, bus_last, bind_vars>>

\* display_sleep = true;
bl_asleep ==
  /\ pc = "bl_asleep"
  /\ display_sleep' = TRUE
  /\ Goto("bl_done")
  /\ UNCHANGED <<display, display_on, init_i, value_in, brightness, bl_entry_sleep,
                 arg_vars, clk_vars, conv_vars, framebuffer, pin_vars,
                 st_vars, pd_vars, bus_last, log, bind_vars>>

\* sleep_ms(120);
bl_sleep120 ==
  /\ pc = "bl_sleep120"
  /\ log' = Append(log, Delay(120))
  /\ Goto("bl_awake")
  /\ UNCHANGED <<sw_vars, arg_vars, clk_vars, conv_vars, framebuffer, pin_vars,
                 st_vars, pd_vars, bus_last, bind_vars>>

\* display_sleep = false;
\* display_sleep = false;
\* (variant: the flag left set)
bl_awake_notcleared ==
  /\ pc = "bl_awake"
  /\ display_sleep' = display_sleep
  /\ Goto("bl_done")
  /\ UNCHANGED <<display, display_on, init_i, value_in, brightness, bl_entry_sleep,
                 arg_vars, clk_vars, conv_vars, framebuffer, pin_vars,
                 st_vars, pd_vars, bus_last, log, bind_vars>>

bl_awake ==
  /\ pc = "bl_awake"
  /\ display_sleep' = FALSE
  /\ Goto("bl_done")
  /\ UNCHANGED <<display, display_on, init_i, value_in, brightness, bl_entry_sleep,
                 arg_vars, clk_vars, conv_vars, framebuffer, pin_vars,
                 st_vars, pd_vars, bus_last, log, bind_vars>>

\* return: the arguments go out of scope
bl_done ==
  /\ pc = "bl_done"
  /\ Return
  /\ value_in' = -1 /\ brightness' = 0 /\ bl_entry_sleep' = FALSE
  /\ LeaveCall
  /\ bl_prev' = IF Head(stack) = "idle" /\ brightness = 0
                  THEN (IF bl_entry_sleep THEN "zero_asleep" ELSE "zero_awake")
                  ELSE "none"
  /\ UNCHANGED <<display, display_on, display_sleep, init_i,
                 arg_vars, clk_vars, conv_vars, framebuffer, pin_vars,
                 st_vars, pd_vars, bus_last, handles, instance, latest>>

set_backlight ==
  bl_pwm \/ bl_branch \/ bl_sleep5 \/ bl_asleep \/ bl_sleep120 \/ bl_awake \/ bl_done

\* ---------------------------------------------------------------- update
\* if(!display_on) { command(reg::DISPON); ...
upd_entry ==
  /\ pc = "update"
  /\ pd_starts' = 0
  /\ log' = Append(log, Refresh)
  /\ IF ~display_on
       THEN cmd' = Cmd0(DISPON) /\ Call("command", "upd_sleep100")
       ELSE cmd' = cmd /\ Goto("upd_clk")
  /\ UNCHANGED <<sw_vars, wb_src, wb_len, clk_vars, conv_vars, framebuffer, pin_vars,
                 st_vars, pd_count, pd_trans, pd_idx, pd_fifo, pd_osr, bus_last, bind_vars>>

\* ... sleep_ms(100); ...
upd_sleep100 ==
  /\ pc = "upd_sleep100"
  /\ log' = Append(log, Delay(100))
  /\ Goto("upd_on")
  /\ UNCHANGED <<sw_vars, arg_vars, clk_vars, conv_vars, framebuffer, pin_vars,
                 st_vars, pd_vars, bus_last, bind_vars>>

\* ... display_on = true; }
\* ... display_on = true; }
\* (variant: the flag not set)
upd_on_notset ==
  /\ pc = "upd_on"
  /\ display_on' = display_on
  /\ Goto("upd_clk")
  /\ UNCHANGED <<display, display_sleep, init_i, value_in, brightness, bl_entry_sleep,
                 arg_vars, clk_vars, conv_vars, framebuffer, pin_vars,
                 st_vars, pd_vars, bus_last, log, bind_vars>>

upd_on ==
  /\ pc = "upd_on"
  /\ display_on' = TRUE
  /\ Goto("upd_clk")
  /\ UNCHANGED <<display, display_sleep, init_i, value_in, brightness, bl_entry_sleep,
                 arg_vars, clk_vars, conv_vars, framebuffer, pin_vars,
                 st_vars, pd_vars, bus_last, log, bind_vars>>

\* sys_clk_hz = clock_get_hz(clk_sys); clk_div = ...; pio_sm_set_clkdiv(..., clk_div);
upd_clk ==
  /\ pc = "upd_clk"
  /\ sys_clk_hz' = clk_sys
  /\ pd_clkdiv' = ClkDiv(clk_sys)
  /\ Goto("upd_wait_dma")
  /\ UNCHANGED <<sw_vars, arg_vars, clk_sys, conv_vars, framebuffer, pin_vars,
                 st_vars, pd_vars, bus_last, log, bind_vars>>

\* dma_channel_wait_for_finish_blocking(pd_st_dma);
\* (variant: the wait left out)
upd_wait_dma_nowait ==
  /\ pc = "upd_wait_dma"
  /\ Goto("upd_wait_fifo")
  /\ UNCHANGED <<sw_vars, arg_vars, clk_vars, conv_vars, framebuffer, pin_vars,
                 st_vars, pd_vars, bus_last, log, bind_vars>>

upd_wait_dma ==
  /\ pc = "upd_wait_dma"
  /\ ~dma_channel_is_busy(pd_count)
  /\ Goto("upd_wait_fifo")
  /\ UNCHANGED <<sw_vars, arg_vars, clk_vars, conv_vars, framebuffer, pin_vars,
                 st_vars, pd_vars, bus_last, log, bind_vars>>

\* while(!pio_sm_is_tx_fifo_empty(parallel_pio, parallel_pd_sm));
\* src = framebuffer; dst = backbuffer; y = 0
upd_wait_fifo ==
  /\ pc = "upd_wait_fifo"
  /\ pio_sm_is_tx_fifo_empty(pd_fifo)
  /\ src' = 0 /\ dst' = 0 /\ y' = 0 /\ x' = 0
  /\ writes' = NoWrites /\ oob' = FALSE
  /\ Goto("upd_for_y")
  /\ UNCHANGED <<sw_vars, arg_vars, clk_vars, backbuffer, lastFb, lastBack,
                 framebuffer, pin_vars, st_vars, pd_vars, bus_last, log, bind_vars>>

\* for(int y = 0; y < height * 2; y+=2)
\* (variant: y++)
YStep_one == 2 - 1

YStep == 2

\* dst += width;  (skip the doubled row)
\* (variant: the skip left out)
RowSkip_none == width - width

RowSkip == width

\* a byte of the framebuffer; an entry of the back-buffer
ReadFb(i) == IF i < FbLen THEN framebuffer[i + 1] ELSE 0
Store(bb, i, v) == IF i < BackbufferLen THEN [bb EXCEPT ![i + 1] = v] ELSE bb
Count(w, i) == IF i < BackbufferLen THEN [w EXCEPT ![i + 1] = @ + 1] ELSE w

upd_for_y ==
  /\ pc = "upd_for_y"
  /\ IF y < height * 2
       THEN x' = 0 /\ Goto("upd_for_x")
       ELSE x' = x /\ Goto("upd_dc0")
  /\ UNCHANGED <<sw_vars, arg_vars, clk_vars, src, dst, y, backbuffer, writes, oob,
                 lastFb, lastBack, framebuffer, pin_vars, st_vars, pd_vars, bus_last, log, bind_vars>>

\* for(int x = 0; x < width; x++) { *(dst + width) = *dst = ...; dst++; src += 4; }
\* dst += width;
upd_for_x ==
  /\ pc = "upd_for_x"
  /\ IF x < width
       THEN LET v == ConvertPixel(ReadFb(src), ReadFb(src + 1), ReadFb(src + 2))
            IN /\ backbuffer' = Store(Store(backbuffer, dst, v), dst + width, v)
               /\ writes' = Count(Count(writes, dst), dst + width)
               /\ oob' = (oob \/ dst + width >= BackbufferLen \/ src + 2 >= FbLen)
               /\ dst' = dst + 1
               /\ src' = src + 4
               /\ x' = x + 1
               /\ y' = y
               /\ Goto("upd_for_x")
       ELSE /\ dst' = dst + RowSkip
            /\ y' = y + YStep
            /\ Goto("upd_for_y")
            /\ UNCHANGED <<backbuffer, writes, oob, src, x>>
  /\ UNCHANGED <<sw_vars, arg_vars, clk_vars, lastFb, lastBack, framebuffer,
                 pin_vars, st_vars, pd_vars, bus_last, log, bind_vars>>

\* gpio_put(dc, 0);  (the conversion is over: its result is remembered)
upd_dc0 ==
  /\ pc = "upd_dc0"
  /\ dc' = 0
  /\ lastFb' = framebuffer /\ lastBack' = backbuffer
  /\ Goto("upd_cs0")
  /\ UNCHANGED <<sw_vars, arg_vars, clk_vars, src, dst, x, y, backbuffer, writes, oob,
                 framebuffer, cs, pwm_level, st_vars, pd_vars, bus_last, log, bind_vars>>

\* gpio_put(cs, 0);
upd_cs0 ==
  /\ pc = "upd_cs0"
  /\ cs' = 0
  /\ Goto("upd_ramwr")
  /\ UNCHANGED <<sw_vars, arg_vars, clk_vars, conv_vars, framebuffer, dc, pwm_level,
                 st_vars, pd_vars, bus_last, log, bind_vars>>

\* write_blocking_parallel(&cmd, 1);
upd_ramwr ==
  /\ pc = "upd_ramwr"
  /\ wb_src' = <<RAMWR>> /\ wb_len' = 1
  /\ Call("write_blocking_parallel", "upd_dc1")
  /\ UNCHANGED <<sw_vars, cmd, clk_vars, conv_vars, framebuffer, pin_vars,
                 st_vars, pd_vars, bus_last, log, bind_vars>>

\* gpio_put(dc, 1);
upd_dc1 ==
  /\ pc = "upd_dc1"
  /\ dc' = 1
  /\ Goto("upd_bulk")
  /\ UNCHANGED <<sw_vars, arg_vars, clk_vars, conv_vars, framebuffer, cs, pwm_level,
                 st_vars, pd_vars, bus_last, log, bind_vars>>

\* dma_channel_set_trans_count(pd_st_dma, 160 * 240, false);
\* (variant: the framebuffer's width * height)
BulkTransCount_framebuffer == width * height

BulkTransCount == width * (height * 2)

\* dma_channel_set_read_addr(pd_st_dma, &backbuffer, true);  and return
upd_bulk ==
  /\ pc = "upd_bulk"
  /\ pd_trans' = BulkTransCount
  /\ pd_count' = BulkTransCount
  /\ pd_idx' = 0
  /\ pd_starts' = pd_starts + 1
  /\ Return
  /\ sys_clk_hz' = W32(0)
  /\ bus_last' = NoByte
  /\ IF Head(stack) = "idle"
       THEN log' = <<>> /\ self_in' = 0 /\ this' = 0
       ELSE log' = Append(log, Bulk) /\ UNCHANGED <<self_in, this>>
  /\ UNCHANGED <<sw_vars, arg_vars, clk_sys, pd_clkdiv, conv_vars, framebuffer,
                 pin_vars, st_vars, pd_fifo, pd_osr, handles, instance, latest, bl_prev>>

update ==
  \/ upd_entry \/ upd_sleep100 \/ upd_on \/ upd_clk \/ upd_wait_dma \/ upd_wait_fifo
  \/ upd_for_y \/ upd_for_x \/ upd_dc0 \/ upd_cs0 \/ upd_ramwr \/ upd_dc1 \/ upd_bulk

\* ------------------------------------------------------------------ init
\* gpio_set_function / gpio_set_dir / pwm_init: both lines become outputs
\* driving what their SIO latches hold (0 after reset, neither is written
\* here), the PWM slice runs at level 0.
init_gpio ==
  /\ pc = "init_gpio"
  /\ pwm_level' = 0 /\ UNCHANGED <<dc, cs>>
  /\ init_i' = 1
  /\ Goto("init")
  /\ UNCHANGED <<display, display_on, display_sleep, value_in, brightness,
                 bl_entry_sleep, arg_vars, clk_vars, conv_vars, framebuffer,
                 st_vars, pd_vars, bus_last, log, bind_vars>>

\* the next statement of init()
init_step ==
  /\ pc = "init"
  /\ init_i <= Len(InitSeq)
  /\ init_i' = init_i + 1
  /\ LET e == InitSeq[init_i]
     IN CASE e.k = "cmd" ->
               /\ cmd' = e
               /\ Call("command", "init")
               /\ UNCHANGED <<brightness, bl_entry_sleep, log>>
          [] e.k = "sleep" ->
               /\ Goto("init")
               /\ log' = Append(log, e)
               /\ UNCHANGED <<cmd, brightness, bl_entry_sleep>>
          [] e.k = "backlight" ->
               /\ brightness' = e.len
               /\ bl_entry_sleep' = display_sleep
               /\ Call("set_backlight", "init")
               /\ UNCHANGED <<cmd, log>>
          [] e.k = "update" ->
               /\ Call("update", "init")
               /\ UNCHANGED <<cmd, brightness, bl_entry_sleep, log>>
  /\ UNCHANGED <<display, display_on, display_sleep, value_in, wb_src, wb_len,
                 clk_vars, conv_vars, framebuffer, pin_vars, st_vars, pd_vars,
                 bus_last, bind_vars>>

init_return ==
  /\ pc = "init"
  /\ init_i > Len(InitSeq)
  /\ Return
  /\ UNCHANGED <<sw_vars, arg_vars, clk_vars, conv_vars, framebuffer, pin_vars,
                 st_vars, pd_vars, bus_last, log, bind_vars>>

init == init_gpio \/ init_step \/ init_return

\* --------------------------------------------------------------- binding
\* The members' initial values are set by the class definition.
MemberInit ==
  /\ display_on' \in BOOLEAN
  /\ display_sleep' \in BOOLEAN

\* The binding's functions take the handle as self_in and ignore it
\* ((void)self_in): every call goes through the one global pointer.
\* (variant: each handle keeps the object made with it)
Deref_self(h) == h

Deref(h) == instance

\* self = mp_obj_malloc_with_finaliser(...); display = m_new_class(ST7789);
\* the constructor of the new object runs init()
make_new(h) ==
  /\ pc = "idle"
  /\ handles' = handles \cup {h}
  /\ self_in' = h /\ this' = h
  /\ MemberInit
  /\ Call("init_gpio", "make_new")
  /\ UNCHANGED <<display, init_i, value_in, brightness, bl_entry_sleep, arg_vars,
                 clk_vars, conv_vars, framebuffer, pin_vars, st_vars, pd_vars,
                 bus_last, log, instance, latest, bl_prev>>

\* the program constructs its display
st7789_make_new ==
  /\ display = "nullptr" /\ handles = {}
  /\ make_new(1)

\* ... the pointer is assigned when the constructor has returned
make_new_return ==
  /\ pc = "make_new"
  /\ display' = "dev"
  /\ instance' = self_in /\ latest' = self_in
  /\ self_in' = 0 /\ this' = 0 /\ log' = <<>> /\ bl_prev' = "none"
  /\ Goto("idle")
  /\ UNCHANGED <<display_on, display_sleep, init_i, value_in, brightness,
                 bl_entry_sleep, arg_vars, clk_vars, conv_vars, framebuffer,
                 pin_vars, st_vars, pd_vars, bus_last, handles>>

\* display->update();
st7789_update ==
  /\ pc = "idle"
  /\ display = "dev"
  /\ \E h \in handles : self_in' = h /\ this' = Deref(h)
  /\ Call("update", "idle")
  /\ UNCHANGED <<sw_vars, arg_vars, clk_vars, conv_vars, framebuffer, pin_vars,
                 st_vars, pd_vars, bus_last, log, handles, instance, latest>>
  /\ bl_prev' = "none"

\* display->set_backlight((uint8_t)(mp_obj_get_float(value_in) * 255));
st7789_set_backlight ==
  /\ pc = "idle"
  /\ display = "dev"
  /\ \E h \in handles : self_in' = h /\ this' = Deref(h)
  /\ \E v \in BacklightValues :
       /\ value_in' = v
       /\ brightness' = ScaleBrightness(v)
  /\ bl_entry_sleep' = display_sleep
  /\ Call("set_backlight", "idle")
  /\ UNCHANGED <<display, display_on, display_sleep, init_i, arg_vars, clk_vars,
                 conv_vars, framebuffer, pin_vars, st_vars, pd_vars, bus_last, log,
                 handles, instance, latest, bl_prev>>

\* bufinfo->buf = display->get_framebuffer();
st7789_get_framebuffer ==
  /\ pc = "idle"
  /\ display = "dev"
  /\ \E h \in handles : self_in' = h /\ this' = Deref(h)
  /\ Call("get_framebuffer", "idle")
  /\ UNCHANGED <<sw_vars, arg_vars, clk_vars, conv_vars, framebuffer, pin_vars,
                 st_vars, pd_vars, bus_last, log, handles, instance, latest>>
  /\ bl_prev' = "none"

\* return framebuffer;
get_framebuffer ==
  /\ pc = "get_framebuffer"
  /\ Return
  /\ self_in' = 0 /\ this' = 0
  /\ UNCHANGED <<sw_vars, arg_vars, clk_vars, conv_vars, framebuffer, pin_vars,
                 st_vars, pd_vars, bus_last, log, handles, instance, latest, bl_prev>>

\* The caller fills the buffer st7789_get_framebuffer hands out.
WriteFramebuffer ==
  /\ pc = "idle"
  /\ display = "dev"
  /\ \E f \in FrameSet : f # framebuffer /\ framebuffer' = f
  /\ UNCHANGED <<pc, stack, sw_vars, arg_vars, clk_vars, conv_vars, pin_vars,
                 st_vars, pd_vars, bus_last, log, bind_vars>>

\* ------------------------------------------------------- specification
Next ==
  \/ st7789_make_new \/ make_new_return
  \/ st7789_update \/ st7789_set_backlight
  \/ st7789_get_framebuffer \/ get_framebuffer
  \/ WriteFramebuffer
  \/ init \/ set_backlight \/ update \/ command \/ write_blocking_parallel
  \/ st_dma_transfer \/ st_pio_pull \/ st_pio_shift
  \/ pd_dma_transfer \/ pd_pio_pull \/ pd_pio_shift

Spec == Init /\ [][Next]_vars

\* ------------------------------------------------- binding specification
\* The interpreter makes up to MaxHandles ST7789 objects, calls the methods
\* of any of them and lets any of them go.  Objects are numbered in the order
\* they are made.
Handles == 1..MaxHandles
\* backlight arguments of the binding specification: off and full
BindBacklight == {0, 1000}

\* st7789_make_new for one more handle
Construct == \E h \in Handles : h = latest + 1 /\ make_new(h)

\* ~ST7789(): the class declares no destructor of its own
Destructor == UNCHANGED <<display_on, display_sleep>>

\* st7789___del__: m_del_class(ST7789, display); display = nullptr;
st7789___del__ ==
  /\ pc = "idle"
  /\ display = "dev"
  /\ \E h \in handles : handles' = handles \ {h}
  /\ Destructor
  /\ display' = "nullptr" /\ instance' = 0
  /\ bl_prev' = "none"
  /\ UNCHANGED <<pc, stack, init_i, value_in, brightness, bl_entry_sleep, arg_vars,
                 clk_vars, conv_vars, framebuffer, pin_vars, st_vars, pd_vars,
                 bus_last, log, latest, self_in, this>>

\* A method called while display is nullptr dereferences the null pointer:
\* the call traps, or it runs on whatever is found at address 0.
null_trap ==
  /\ pc = "idle"
  /\ display = "nullptr" /\ handles # {}
  /\ pc' = "fault"
  /\ UNCHANGED <<stack, sw_vars, arg_vars, clk_vars, conv_vars, framebuffer, pin_vars,
                 st_vars, pd_vars, bus_last, log, bind_vars>>

null_del ==
  /\ pc = "idle"
  /\ display = "nullptr"
  /\ \E h \in handles : handles' = handles \ {h}
  /\ bl_prev' = "none"
  /\ UNCHANGED <<pc, stack, sw_vars, arg_vars, clk_vars, conv_vars, framebuffer,
                 pin_vars, st_vars, pd_vars, bus_last, log, instance, latest,
                 self_in, this>>

null_update ==
  /\ pc = "idle"
  /\ display = "nullptr"
  /\ \E h \in handles : self_in' = h
  /\ this' = 0
  /\ MemberInit
  /\ bl_prev' = "none"
  /\ Call("update", "idle")
  /\ UNCHANGED <<display, init_i, value_in, brightness, bl_entry_sleep, arg_vars,
                 clk_vars, conv_vars, framebuffer, pin_vars, st_vars, pd_vars,
                 bus_last, log, handles, instance, latest>>

null_set_backlight ==
  /\ pc = "idle"
  /\ display = "nullptr"
  /\ \E h \in handles : self_in' = h
  /\ this' = 0
  /\ MemberInit
  /\ \E v \in BindBacklight :
       /\ value_in' = v
       /\ brightness' = ScaleBrightness(v)
  /\ bl_entry_sleep' = display_sleep'
  /\ Call("set_backlight", "idle")
  /\ UNCHANGED <<display, init_i, arg_vars, clk_vars, conv_vars, framebuffer,
                 pin_vars, st_vars, pd_vars, bus_last, log, handles, instance,
                 latest, bl_prev>>

null_get_framebuffer ==
  /\ pc = "idle"
  /\ display = "nullptr"
  /\ \E h \in handles : self_in' = h
  /\ this' = 0
  /\ bl_prev' = "none"
  /\ Call("get_framebuffer", "idle")
  /\ UNCHANGED <<sw_vars, arg_vars, clk_vars, conv_vars, framebuffer, pin_vars,
                 st_vars, pd_vars, bus_last, log, handles, instance, latest>>

BindInit == Init /\ clk_sys = W32(125000000)

BindNext ==
  \/ Construct \/ make_new_return \/ st7789___del__
  \/ st7789_update
  \/ (st7789_set_backlight /\ value_in' \in BindBacklight)
  \/ st7789_get_framebuffer \/ get_framebuffer
  \/ null_trap \/ null_del \/ null_update \/ null_set_backlight
  \/ null_get_framebuffer
  \/ init \/ set_backlight \/ update \/ command \/ write_blocking_parallel
  \/ st_dma_transfer \/ st_pio_pull \/ st_pio_shift
  \/ pd_dma_transfer \/ pd_pio_pull \/ pd_pio_shift

SpecBind == BindInit /\ [][BindNext]_vars

\* ------------------------------------------------ liveness specification
\* The thread of control takes its next step whenever it has one (a spin
\* wait is a step that waits for its condition), every DMA channel goes on
\* with a transfer it has started, and every shift state machine goes on
\* emptying its FIFO.
Software ==
  \/ make_new_return
  \/ init \/ set_backlight \/ update \/ command \/ write_blocking_parallel

Fairness ==
  /\ WF_vars(Software)
  /\ WF_vars(st_dma_transfer) /\ WF_vars(st_pio_pull) /\ WF_vars(st_pio_shift)
  /\ WF_vars(pd_dma_transfer) /\ WF_vars(pd_pio_pull) /\ WF_vars(pd_pio_shift)

\* The interpreter constructs the display and calls update() and
\* set_backlight() in any order; the framebuffer keeps its first contents.
LiveInit == Init /\ clk_sys = W32(125000000)

LiveNext ==
  \/ st7789_make_new \/ make_new_return
  \/ st7789_update \/ st7789_set_backlight
  \/ init \/ set_backlight \/ update \/ command \/ write_blocking_parallel
  \/ st_dma_transfer \/ st_pio_pull \/ st_pio_shift
  \/ pd_dma_transfer \/ pd_pio_pull \/ pd_pio_shift

SpecLive == LiveInit /\ [][LiveNext]_vars /\ Fairness

\* ------------------------------------------- conversion specification
\* update()'s pixel conversion alone: any frame of ConvFrames over any earlier
\* back-buffer contents, then further update() calls with the framebuffer
\* left alone or rewritten by the caller in between.
ConvInit ==
  /\ Reset
  /\ pc = "upd_wait_fifo"
  /\ clk_sys = W32(125000000)
  /\ framebuffer \in ConvFrames
  /\ backbuffer \in BackFills
  /\ lastFb = <<>>
  /\ lastBack = <<>>

\* the rest of one update() and the next one up to its conversion
ConvAgain ==
  /\ pc = "upd_dc0"
  /\ lastFb' = framebuffer /\ lastBack' = backbuffer
  /\ framebuffer' \in ConvFrames
  /\ pc' = "upd_wait_fifo"
  /\ UNCHANGED <<stack, sw_vars, arg_vars, clk_vars, src, dst, x, y, backbuffer,
                 writes, oob, pin_vars, st_vars, pd_vars, bus_last, log, bind_vars>>

ConvNext == upd_wait_fifo \/ upd_for_y \/ upd_for_x \/ ConvAgain

SpecConv == ConvInit /\ [][ConvNext]_vars

\* ---------------------------------------- clock-divider specification
\* update()'s divider computation for every clock of ClockSet.
ClkInit ==
  /\ Reset
  /\ pc = "upd_clk"
  /\ clk_sys \in ClockSet
  /\ framebuffer = ZeroFrame
  /\ backbuffer = [i \in 1..BackbufferLen |-> 0]
  /\ lastFb = <<>>
  /\ lastBack = <<>>

ClkNext == upd_clk

SpecClk == ClkInit /\ [][ClkNext]_vars

\* ================================================================ claims
WbpLabels == {"write_blocking_parallel", "wbp_finish", "wbp_fifo"}
BlLabels == {"set_backlight", "bl_branch", "bl_sleep5", "bl_asleep", "bl_sleep120",
             "bl_awake", "bl_done"}
OnStack(labels) == \E i \in DOMAIN stack : stack[i] \in labels

\* the converter is between its first and its last store
Converting == pc \in {"upd_for_y", "upd_for_x"}
\* words of a bulk transfer are still to be read, queued or being shifted
BulkOnBus == dma_channel_is_busy(pd_count) \/ pd_fifo # <<>> \/ pd_osr # <<>>
\* command() has asserted chip-select and not yet deasserted it
InCommandFraming ==
  \/ pc \in {"cmd_op", "cmd_data", "cmd_payload", "cmd_cs1"}
  \/ pc \in WbpLabels /\ Head(stack) \in {"cmd_data", "cmd_cs1"}
\* set_backlight is running (possibly inside the command it issues)
InSetBacklight == pc \in BlLabels \/ OnStack(BlLabels)
\* set_backlight is issuing its leave-sleep command or is in the delay after it
BlCommandIssued ==
  \/ pc \in {"bl_sleep5", "bl_asleep", "bl_sleep120", "bl_awake"}
  \/ OnStack({"bl_sleep5", "bl_sleep120"})

\* C1: while update()'s pixel converter is writing the back-buffer, the bulk
\* DMA channel is idle and the FIFO of its shift state machine is empty: the
\* transfer the previous update() started is over before the first store.
C1_Backpressure ==
  Converting => (~dma_channel_is_busy(pd_count) /\ pio_sm_is_tx_fifo_empty(pd_fifo))

\* a later update() of a constructed driver is converting, after an earlier
\* update() had started a bulk transfer
C1_Witness ==
  /\ pc = "upd_for_x" /\ x > 0
  /\ display = "dev"
  /\ pd_trans = BulkTransCount /\ pd_starts = 0

\* C2: on a constructed driver, while command() holds chip-select asserted no
\* bulk pixel transfer is in flight on the bus.
C2_CommandFramingExclusive ==
  (display = "dev" /\ InCommandFraming) => ~BulkOnBus

\* RGB565 of a source pixel, by fields: 5 bits of R, 6 of G, 5 of B
Rgb565(r, g, b) == (r \div 8) * 2048 + (g \div 4) * 32 + (b \div 8)
SrcByte(px, py, k) == framebuffer[4 * (py * width + px) + k]
Expected(px, py) == Rgb565(SrcByte(px, py, 1), SrcByte(px, py, 2), SrcByte(px, py, 3))

\* C3: after the conversion every source pixel (x, y) is in the back-buffer as
\* its RGB565 value at entry 2y * width + x and again width entries later (rows
\* 2y and 2y + 1); the value depends on R, G and B only; a solid red
\* framebuffer gives 0xF800 in every entry.
C3_ConversionDoubled ==
  pc = "upd_dc0" =>
    /\ \A px \in 0..(width - 1), py \in 0..(height - 1) :
         LET p == (2 * py) * width + px
         IN /\ backbuffer[p + 1] = Expected(px, py)
            /\ backbuffer[p + width + 1] = Expected(px, py)
    /\ (framebuffer = FrameBytes(0, 0) =>
          \A i \in 1..BackbufferLen : backbuffer[i] = 63488)

\* a frame whose first two pixels differ in the pad byte only has been converted
C3_Witness ==
  /\ pc = "upd_dc0"
  /\ framebuffer = FrameBytes(1, 1)
  /\ framebuffer[4] # framebuffer[8]
  /\ backbuffer[1] = 2081 /\ backbuffer[2] = 2081

\* rows of the back-buffer and converted rows of the framebuffer
BackRow(r) == SubSeq(backbuffer, r * width + 1, (r + 1) * width)
ConvRow(py) ==
  [px \in 1..width |->
     ConvertPixel(SrcByte(px - 1, py, 1), SrcByte(px - 1, py, 2), SrcByte(px - 1, py, 3))]

\* C4 as stated: source row y is found at back-buffer rows y and y + height.
C4_RowsYAndYPlusHeight ==
  pc = "upd_dc0" =>
    \A py \in 0..(height - 1) :
      BackRow(py) = ConvRow(py) /\ BackRow(py + height) = ConvRow(py)

\* C4, amended: source row y is found at back-buffer rows 2y and 2y + 1.
C4_RowsAdjacent ==
  pc = "upd_dc0" =>
    \A py \in 0..(height - 1) :
      BackRow(2 * py) = ConvRow(py) /\ BackRow(2 * py + 1) = ConvRow(py)

\* a frame whose first two rows convert differently has been converted
C4_Witness ==
  /\ pc = "upd_dc0"
  /\ ConvRow(0) # ConvRow(1)
  /\ BackRow(1) = ConvRow(0)

\* what the caller asked for is not zero: the binding's float, or the level
\* init() passes directly
RequestedNonzero == IF value_in >= 0 THEN value_in > 0 ELSE brightness > 0

\* set_backlight(0.0) on an awake panel ends asleep, set_backlight(1.0) on a
\* sleeping panel ends awake, and a freshly constructed driver is awake
RoundTrip ==
  /\ (pc = "make_new" => ~display_sleep)
  /\ ((pc = "bl_done" /\ value_in = 0 /\ ~bl_entry_sleep) => display_sleep)
  /\ ((pc = "bl_done" /\ value_in = 1000 /\ bl_entry_sleep) => ~display_sleep)

\* C5 as stated: the round trip, and no leave-sleep command and no 120 ms
\* delay in a call made on an awake panel with a nonzero requested brightness.
C5_NoCommandWhenRequestNonzero ==
  /\ RoundTrip
  /\ ((BlCommandIssued /\ ~bl_entry_sleep) => ~RequestedNonzero)
  /\ (pc \in {"bl_sleep120", "bl_awake"} => bl_entry_sleep)

\* C5, amended: the round trip, and no leave-sleep command and no 120 ms
\* delay in a call made on an awake panel with a brightness that is nonzero
\* after the binding has scaled it to 0..255.
C5_NoCommandWhenLevelNonzero ==
  /\ RoundTrip
  /\ ((BlCommandIssued /\ ~bl_entry_sleep) => brightness = 0)
  /\ (pc \in {"bl_sleep120", "bl_awake"} => bl_entry_sleep)

\* set_backlight(1.0) is returning on a constructed driver that was asleep
C5_Witness ==
  /\ pc = "bl_done" /\ display = "dev"
  /\ value_in = 1000 /\ brightness = 255
  /\ bl_entry_sleep /\ ~display_sleep

\* C6: on a constructed driver, in every state outside a running
\* set_backlight call, display_sleep implies a PWM level of 0.
C6_SleepImpliesDark ==
  (display = "dev" /\ ~InSetBacklight /\ display_sleep) => pwm_level = 0

\* the driver is idle and asleep
C6_Witness ==
  /\ pc = "idle" /\ display = "dev"
  /\ display_sleep /\ pwm_level = 0

\* C7: on a constructed driver the PWM level is nonzero only when the panel
\* has been woken (display_sleep is false).
C7_WakeBeforeLight ==
  (display = "dev" /\ pwm_level > 0) => ~display_sleep

\* the memory-write opcode is the latest byte handed to parallel_sm, and has
\* left its FIFO
RamwrIssued ==
  /\ st_fifo = <<>>
  /\ \/ st_osr = <<RAMWR>>
     \/ st_osr = <<>> /\ bus_last[1] = RAMWR

\* C8 as stated: the step that ends update() has sent the memory-write opcode,
\* starts one bulk transfer of 320 x 240 words (twice the logical width by
\* twice the logical height) and returns with all of it still to do.
C8_Bulk320x240 ==
  [][(pc = "upd_bulk" /\ pc' # "upd_bulk") =>
       /\ RamwrIssued
       /\ pd_starts' = 1
       /\ pd_trans' = (2 * width) * (2 * height)
       /\ pd_count' = pd_trans' /\ pd_idx' = 0
       /\ pc' = Head(stack)]_vars

\* C8, amended: the step that ends update() has sent the memory-write opcode,
\* starts one bulk transfer of the whole back-buffer, 160 x 240 words (the
\* logical width by twice the logical height), and returns with all of it
\* still to do.
C8_BulkWholeBackbuffer ==
  [][(pc = "upd_bulk" /\ pc' # "upd_bulk") =>
       /\ RamwrIssued
       /\ pd_starts' = 1
       /\ pd_trans' = BackbufferLen
       /\ pd_count' = pd_trans' /\ pd_idx' = 0
       /\ pc' = Head(stack)]_vars

\* update() has returned to the caller and the bulk channel is still busy
C8_Witness ==
  /\ pc = "idle" /\ display = "dev"
  /\ pd_starts = 1 /\ dma_channel_is_busy(pd_count)

\* C9: a conversion stores every back-buffer entry exactly once, touches
\* nothing outside the back-buffer or the FbLen bytes of the framebuffer,
\* consumes the framebuffer to its end, and with the framebuffer as it was at
\* the previous conversion leaves the back-buffer as that one left it.
C9_Idempotent ==
  pc = "upd_dc0" =>
    /\ \A i \in 1..BackbufferLen : writes[i] = 1
    /\ ~oob
    /\ src = FbLen
    /\ (framebuffer = lastFb => backbuffer = lastBack)

\* a second conversion of an unchanged, non-uniform framebuffer is complete
C9_Witness ==
  /\ pc = "upd_dc0"
  /\ framebuffer = lastFb /\ backbuffer = lastBack
  /\ framebuffer = FrameBytes(1, 1)

\* a quarter of a 32-bit value, rounded up
Ceil4(a) == a.h * (U16 \div 4) + ((a.l + 3) \div 4)

\* C10: for a system clock hz with 0 < hz <= 2^32 - max_pio_clk the divider
\* is the least d with d * max_pio_clk >= hz (so hz / d <= max_pio_clk), and
\* 125 MHz gives 3.  (Compared in quarters to stay within 31 bits.)
C10_ClockDivider ==
  (pc = "upd_wait_dma" /\ sys_clk_hz # W32(0) /\ LessEq32(sys_clk_hz, ClockEdge)) =>
    /\ pd_clkdiv * (max_pio_clk \div 4) >= Ceil4(sys_clk_hz)
    /\ (pd_clkdiv - 1) * (max_pio_clk \div 4) < Ceil4(sys_clk_hz)
    /\ (sys_clk_hz = W32(125000000) => pd_clkdiv = 3)

\* the divider for 125 MHz has been applied
C10_Witness ==
  /\ pc = "upd_wait_dma"
  /\ sys_clk_hz = W32(125000000)
  /\ pd_clkdiv = 3

\* C11: whenever command() is about to assert chip-select for a command with
\* a payload, chip-select is deasserted: the command() call before it has
\* raised it, and nothing has lowered it since.
C11_PayloadCommandAfterDeassert ==
  (pc \in {"command", "cmd_cs0"} /\ ~cmd.null) => cs = 1

\* the column-address command is about to assert chip-select, after the
\* commands init() issued before it
C11_Witness ==
  /\ pc = "cmd_cs0" /\ cmd.op = CASET /\ ~cmd.null
  /\ cs = 1
  /\ Len(log) > 0 /\ log[Len(log)].k = "sleep"

\* what a conversion of framebuffer fb leaves in the back-buffer, by fields
ExpectedBack(fb) ==
  [i \in 1..BackbufferLen |->
     LET px == (i - 1) % width
         py == ((i - 1) \div width) \div 2
         b == 4 * (py * width + px)
     IN Rgb565(fb[b + 1], fb[b + 2], fb[b + 3])]

\* update() is past its conversion and has not yet started the bulk transfer
AfterConversion ==
  \/ pc \in {"upd_cs0", "upd_ramwr", "upd_dc1", "upd_bulk"}
  \/ pc \in WbpLabels /\ Head(stack) = "upd_dc1"

\* C12: every word of a bulk transfer, queued in the FIFO or in the shifter on
\* its way to the bus, is the conversion of the framebuffer as it was when
\* update() converted it (lastFb), at that word's index, whatever the caller
\* has written into the framebuffer since; and only the caller, between
\* calls, ever changes the framebuffer.
C12_FrameInFlightStable ==
  /\ [](/\ \A k \in 1..Len(pd_fifo) :
             pd_fifo[k] = ExpectedBack(lastFb)[pd_idx - Len(pd_fifo) + k]
        /\ (pd_osr # <<>> /\ pd_idx - Len(pd_fifo) >= 1 /\ ~AfterConversion) =>
             pd_osr[1] = ExpectedBack(lastFb)[pd_idx - Len(pd_fifo)])
  /\ [][framebuffer' # framebuffer => (pc = "idle" /\ pc' = "idle")]_vars

\* the caller has rewritten the framebuffer while words of the previous,
\* non-black frame are queued and more are still to be read
C12_Witness ==
  /\ pc = "idle"
  /\ lastFb = FrameBytes(1, 1) /\ framebuffer # lastFb
  /\ dma_channel_is_busy(pd_count) /\ pd_fifo # <<>> /\ pd_osr # <<>>

Last(s) == s[Len(s)]
\* the byte parallel_sm took last: in its shifter, or the latest on the bus
LastTaken == IF st_osr # <<>> THEN st_osr[1] ELSE bus_last[1]
\* command() is transferring its opcode; its payload
OpcodePhase == pc \in WbpLabels /\ Head(stack) = "cmd_data"
PayloadPhase == pc \in WbpLabels /\ Head(stack) = "cmd_cs1"
\* command() has just returned to its caller
CommandReturned ==
  \/ pc \in {"bl_sleep5", "bl_sleep120", "upd_sleep100"}
  \/ pc = "init" /\ log # <<>> /\ Last(log).k = "cmd"

\* C13: command(opcode, length, payload) holds chip-select asserted and the
\* mode line at command while st_dma transfers one byte, the opcode; exactly
\* when the payload is non-null it then sets the mode line to data and st_dma
\* transfers the `length` payload bytes in order; when it returns chip-select
\* is deasserted, st_dma is idle and the FIFO of parallel_sm is empty.
C13_CommandTransfers ==
  /\ OpcodePhase =>
       /\ dc = 0 /\ cs = 0
       /\ wb_len = 1 /\ wb_src = <<cmd.op>>
       /\ (pc # "write_blocking_parallel" =>
             st_src = SubSeq(wb_src, wb_len - st_count + 1, wb_len))
  /\ pc = "cmd_data" =>
       /\ dc = 0 /\ cs = 0
       /\ ~dma_channel_is_busy(st_count) /\ pio_sm_is_tx_fifo_empty(st_fifo)
       /\ LastTaken = cmd.op
  /\ (pc = "cmd_payload" \/ PayloadPhase) => (~cmd.null /\ dc = 1 /\ cs = 0)
  /\ PayloadPhase =>
       /\ wb_len = cmd.len /\ wb_src = cmd.data /\ Len(cmd.data) = cmd.len
       /\ (pc # "write_blocking_parallel" =>
             st_src = SubSeq(cmd.data, cmd.len - st_count + 1, cmd.len))
  /\ pc = "cmd_cs1" =>
       /\ cs = 0
       /\ ~dma_channel_is_busy(st_count) /\ pio_sm_is_tx_fifo_empty(st_fifo)
       /\ dc = (IF cmd.null THEN 0 ELSE 1)
       /\ LastTaken = (IF cmd.null THEN cmd.op ELSE Last(cmd.data))
  /\ CommandReturned =>
       /\ cs = 1
       /\ ~dma_channel_is_busy(st_count) /\ pio_sm_is_tx_fifo_empty(st_fifo)

\* the 14 payload bytes of the positive gamma command have all been
\* transferred and command() is about to deassert chip-select
C13_Witness ==
  /\ pc = "cmd_cs1" /\ cmd.op = GMCTRP1 /\ cmd.len = 14
  /\ dc = 1 /\ cs = 0
  /\ st_count = 0 /\ st_fifo = <<>> /\ LastTaken = 45

\* what the running set_backlight call has done since it set the PWM level
RECURSIVE LastLight(_, _)
LastLight(l, i) == IF i = 0 \/ l[i].k = "backlight" THEN i ELSE LastLight(l, i - 1)
BlEvents == SubSeq(log, LastLight(log, Len(log)) + 1, Len(log))

\* set_backlight(b), about to return, has made the transition of the table:
\* awake and b = 0: one SLPOUT, 5 ms, asleep; asleep: one SLPOUT, 120 ms,
\* awake; awake and b > 0: nothing
BlTransition ==
  pc = "bl_done" =>
    /\ (~bl_entry_sleep /\ brightness = 0) =>
         (BlEvents = <<Cmd0(SLPOUT), Delay(5)>> /\ display_sleep)
    /\ bl_entry_sleep =>
         (BlEvents = <<Cmd0(SLPOUT), Delay(120)>> /\ ~display_sleep)
    /\ (~bl_entry_sleep /\ brightness > 0) =>
         (BlEvents = <<>> /\ ~display_sleep)

\* C14 as stated: the transition table, and any set_backlight(0) call that
\* directly follows a set_backlight(0) call leaves display_sleep false with
\* duty 0.
C14_TwoZeroCallsAwake ==
  /\ BlTransition
  /\ (pc = "bl_done" /\ Head(stack) = "idle" /\ brightness = 0 /\ bl_prev # "none") =>
       (~display_sleep /\ pwm_level = 0)

\* C14, amended: the transition table, and a set_backlight(0) call that
\* directly follows a set_backlight(0) call made on an awake panel leaves
\* display_sleep false with duty 0 (after one made on a sleeping panel it
\* leaves display_sleep true).
C14_TwoZeroCallsFromAwake ==
  /\ BlTransition
  /\ (pc = "bl_done" /\ Head(stack) = "idle" /\ brightness = 0) =>
       /\ bl_prev = "zero_awake" => (~display_sleep /\ pwm_level = 0)
       /\ bl_prev = "zero_asleep" => (display_sleep /\ pwm_level = 0)

\* the second of two set_backlight(0) calls on an awake panel is returning
C14_Witness ==
  /\ pc = "bl_done" /\ Head(stack) = "idle"
  /\ brightness = 0 /\ bl_prev = "zero_awake" /\ bl_entry_sleep
  /\ BlEvents = <<Cmd0(SLPOUT), Delay(120)>>
  /\ ~display_sleep /\ pwm_level = 0

\* what the running update() call has done since it was entered
RECURSIVE LastEntry(_, _)
LastEntry(l, i) == IF i = 0 \/ l[i].k = "update" THEN i ELSE LastEntry(l, i - 1)
UpdEvents == SubSeq(log, LastEntry(log, Len(log)) + 1, Len(log))
\* update() is inside its display-on guard
InDisplayOnGuard == pc \in {"upd_sleep100", "upd_on"} \/ OnStack({"upd_sleep100"})
\* update() is past its display-on guard
PastDisplayOnGuard ==
  \/ pc \in {"upd_clk", "upd_wait_dma", "upd_wait_fifo", "upd_for_y", "upd_for_x",
             "upd_dc0"}
  \/ AfterConversion
\* the constructor's init() is running
InInit == pc \in {"init_gpio", "init"} \/ OnStack({"init"})

\* C15: update() goes through its display-on guard only with display_on
\* false, and then issues DISPON and waits 100 ms, in this order, before it
\* sets display_on and before it starts its bulk transfer; past the guard
\* display_on is true and nothing else has been done; display_on is true in
\* every state of a constructed driver and from the first bulk start of
\* init() on; the guard is entered only in the update() that init() runs, so
\* at most once in the driver's lifetime.
C15_DisplayOnGuard ==
  /\ InDisplayOnGuard =>
       /\ ~display_on /\ pd_starts = 0
       /\ InInit
       /\ (pc = "upd_sleep100" => UpdEvents = <<Cmd0(DISPON)>>)
       /\ (pc = "upd_on" => UpdEvents = <<Cmd0(DISPON), Delay(100)>>)
  /\ PastDisplayOnGuard =>
       /\ display_on /\ pd_starts = 0
       /\ UpdEvents \in {<<>>, <<Cmd0(DISPON), Delay(100)>>}
  /\ (display = "dev" \/ \E i \in DOMAIN log : log[i].k = "bulk") => display_on

\* the update() of init() has issued DISPON, waited and set display_on, and
\* is about to start its bulk transfer
C15_Witness ==
  /\ pc = "upd_bulk" /\ InInit
  /\ UpdEvents = <<Cmd0(DISPON), Delay(100)>>
  /\ display_on /\ pd_starts = 0 /\ ~BulkOnBus

\* opcodes of the commands in a log, in order
IsCmd(e) == e.k = "cmd"
OpsOf(l) == LET c == SelectSeq(l, IsCmd) IN [i \in 1..Len(c) |-> c[i].op]
\* index of the first entry of kind k (0: none), number of entries of kind k
RECURSIVE FirstOf(_, _, _)
FirstOf(l, k, i) ==
  IF i > Len(l) THEN 0 ELSE IF l[i].k = k THEN i ELSE FirstOf(l, k, i + 1)
CountOf(l, k) == Cardinality({i \in DOMAIN l : l[i].k = k})
\* index of the first command with opcode op (0: none)
RECURSIVE FirstCmd(_, _, _)
FirstCmd(l, op, i) ==
  IF i > Len(l) THEN 0
  ELSE IF l[i].k = "cmd" /\ l[i].op = op THEN i ELSE FirstCmd(l, op, i + 1)

\* what init() did before it called update()
BeforeUpdate == SubSeq(log, 1, FirstOf(log, "update", 1) - 1)

\* the analog, porch and gamma registers
AnalogRegisters ==
  <<PORCTRL, LCMCTRL, VDVVRHEN, VRHS, VDVS, PWCTRL1, FRCTRL2, RAMCTRL, GCTRL, VCOMS,
    GMCTRP1, GMCTRN1>>

\* init() has returned and, apart from the order of its commands, has done
\* what the claim lists: backlight 0 first, 150 ms after the reset, 16-bit
\* colour, 100 ms after display-on, the windows 0..319 and 0..239 big-endian,
\* one update() with one bulk start, and the backlight raised to 255 right
\* after that bulk start and not before
InitDone(l) ==
  /\ l[1] = Light(0)
  /\ l[FirstCmd(l, SWRESET, 1) + 1] = Delay(150)
  /\ l[FirstCmd(l, COLMOD, 1)].data = <<5>>
  /\ l[FirstCmd(l, DISPON, 1) + 1] = Delay(100)
  /\ l[FirstCmd(l, CASET, 1)].data = <<0, 0, 1, 63>>
  /\ l[FirstCmd(l, RASET, 1)].data = <<0, 0, 0, 239>>
  /\ l[FirstCmd(l, MADCTL, 1)].data = <<176>>
  /\ CountOf(l, "update") = 1 /\ CountOf(l, "bulk") = 1
  /\ CountOf(l, "backlight") = 2
  /\ l[FirstOf(l, "bulk", 1) + 1] = Light(255)

\* C16 as stated: the reset is the first command on the bus and the
\* orientation is set before the column and row windows.
C16_InitOrderAsStated ==
  /\ pc = "make_new" =>
       /\ OpsOf(BeforeUpdate) =
            <<SWRESET, TEON, COLMOD>> \o AnalogRegisters
              \o <<INVON, SLPOUT, DISPON, MADCTL, CASET, RASET>>
       /\ InitDone(log)
  /\ (InInit /\ pc # "init_gpio" /\ CountOf(log, "bulk") = 0) => pwm_level = 0

\* C16, amended: the first command on the bus is the leave-sleep command of
\* set_backlight(0), then the reset and the registers as listed, and the
\* column and row windows are set before the orientation.
C16_InitOrder ==
  /\ pc = "make_new" =>
       /\ OpsOf(BeforeUpdate) =
            <<SLPOUT, SWRESET, TEON, COLMOD>> \o AnalogRegisters
              \o <<INVON, SLPOUT, DISPON, CASET, RASET, MADCTL>>
       /\ InitDone(log)
  /\ (InInit /\ pc # "init_gpio" /\ CountOf(log, "bulk") = 0) => pwm_level = 0

\* init() has returned with the backlight at full level
C16_Witness ==
  /\ pc = "make_new"
  /\ Len(OpsOf(BeforeUpdate)) = 22
  /\ Last(log).k \in {"backlight", "sleep"}
  /\ pwm_level = 65535

\* C17: the step that starts st_dma (write_blocking_dma, after its wait)
\* finds st_dma idle, and the step that starts pd_st_dma (the end of
\* update()) finds pd_st_dma idle: it has been idle since update()'s wait for
\* the previous bulk transfer.
C17_NoStartWhileBusy ==
  /\ [][(pc = "write_blocking_parallel" /\ pc' = "wbp_finish") =>
          ~dma_channel_is_busy(st_count)]_vars
  /\ [][(pc = "upd_bulk" /\ pc' # "upd_bulk") => ~dma_channel_is_busy(pd_count)]_vars
  /\ []((PastDisplayOnGuard /\ pc # "upd_clk" /\ pc # "upd_wait_dma") =>
          ~dma_channel_is_busy(pd_count))

\* a later update() of a constructed driver is about to start its bulk
\* transfer, the previous one being over
C17_Witness ==
  /\ pc = "upd_bulk" /\ display = "dev"
  /\ pd_trans = BulkTransCount /\ ~dma_channel_is_busy(pd_count)
  /\ ~dma_channel_is_busy(st_count)

\* C18: when command() is about to switch the mode line from command to
\* data, and when it is about to deassert chip-select, every byte it handed
\* to parallel_sm is on the bus: st_dma has finished, the FIFO is empty and
\* nothing is left in the shifter.
C18_NothingInFlight ==
  ((pc = "cmd_data" /\ ~cmd.null) \/ pc = "cmd_cs1") =>
    /\ ~dma_channel_is_busy(st_count)
    /\ pio_sm_is_tx_fifo_empty(st_fifo)
    /\ st_osr = <<>>

\* the spin waits and what each waits for
Spinning ==
  \/ pc \in {"write_blocking_parallel", "wbp_finish"} /\ dma_channel_is_busy(st_count)
  \/ pc = "wbp_fifo" /\ ~pio_sm_is_tx_fifo_empty(st_fifo)
  \/ pc = "upd_wait_dma" /\ dma_channel_is_busy(pd_count)
  \/ pc = "upd_wait_fifo" /\ ~pio_sm_is_tx_fifo_empty(pd_fifo)

\* C19: with every started DMA transfer going on to its end and every shift
\* FIFO draining, every call of command(), update() and set_backlight()
\* returns, and so does the interpreter's call that made it (the thread of
\* control is back at "idle"); and a caller in a spin wait stays in that wait
\* for as long as what it waits for has not happened.
C19_Termination ==
  /\ (pc \in {"command", "update", "set_backlight"}) ~> (pc = "idle")
  /\ [][Spinning => pc' = pc]_vars

\* a call is waiting for a bulk transfer that is still running
C19_Witness ==
  /\ pc = "upd_wait_dma" /\ display = "dev"
  /\ dma_channel_is_busy(pd_count)

\* a constructor is running: its object is not yet the one display points to
Constructing == pc = "make_new" \/ OnStack({"make_new"})

\* C20: the binding keeps one device pointer for the whole process.  A
\* method called through any handle acts on the instance made last (or on
\* none, when the pointer is null), whichever handle is passed; letting go
\* of any one handle clears the pointer, and only a constructor makes it
\* valid again.
C20_SharedDevicePointer ==
  /\ [](/\ (display = "nullptr") <=> (instance = 0)
        /\ instance \in {0, latest}
        /\ (self_in # 0 /\ ~Constructing) => this = instance)
  /\ [][(handles' # handles /\ handles' \subseteq handles)
          => (display' = "nullptr" /\ instance' = 0)]_vars
  /\ [][(instance = 0 /\ instance' # 0) => pc = "make_new"]_vars

\* the first of two handles was let go; a call through the second, which
\* was never destroyed, finds no instance
C20_Witness ==
  /\ handles = {2} /\ latest = 2
  /\ display = "nullptr"
  /\ self_in = 2 /\ this = 0
  /\ pc = "update"

====
